---- MODULE Spec2Model ----
(***************************************************************************)
(* Model of mcp-process (src/src/mcp_process/server_process.py and         *)
(* clean_control_chars.py): the tool dispatcher handle_call_tool with its  *)
(* three tools (exec, terminal, terminal_terminate), the module-level      *)
(* singleton interactive_process, the pyte screen it drives, the safety    *)
(* gate requires_validation and the normalizer fix_control_at_end.         *)
(*                                                                         *)
(* handle_call_tool contains no await: one call runs to completion before  *)
(* the event loop can start another, so each call is one atomic action.    *)
(* What the operating system and the PTY library decide during a call      *)
(* (spawn/write/read failing, data being ready, the child exiting, the     *)
(* force-termination raising) is an input of the action.                   *)
(*                                                                         *)
(* Text is a sequence of one-character strings.  "BS" is a backslash,      *)
(* "NL" a newline, "CR"/"LF" the carriage return and line feed a child     *)
(* prints, "CUR" the cursor glyph, " " a blank cell.                       *)
(***************************************************************************)
EXTENDS Integers, Sequences, FiniteSets, TLC

\* ------------------------------------------------------------------ bounds
\* at most MaxPid processes are spawned by the terminal tool in one run
MaxPid == 2
\* at most MaxWrites inputs are written to one process
MaxWrites == 2
\* the longest string the two functions on strings are applied to
MaxLen == 4
\* at most MaxTasks requests are in flight at one time
MaxTasks == 2

\* ----------------------------------------------------------- configuration
\* --terminal-height / --terminal-width of the modelled run
TerminalHeight == 2
TerminalWidth == 2
\* --forbidden-words of the modelled run: the two words "rm" and "mm"
forbidden_words == { <<"r", "m">>, <<"m", "m">> }
\* --filter-patterns of the modelled run: the one pattern "b", a regular
\* expression that matches the letter b; load_config compiles the list
\* into config["compiled_filters"]
filter_patterns == << <<"b">> >>
\* config["terminal_dimensions"] = (height, width)
terminal_dimensions == <<TerminalHeight, TerminalWidth>>

\* interactive_process = None (pids are positive)
None == 0
\* arguments.get("input") of a dict without the key: None, which is no str
Absent == <<"None">>
\* arguments is None or {}: `not arguments` holds
NoArgs == [empty |-> TRUE, input |-> Absent, wait |-> Absent]
\* a non-empty arguments dict, with or without the key "input", without
\* the key "wait"
Args(input) == [empty |-> FALSE, input |-> input, wait |-> Absent]
\* a non-empty arguments dict with the key "wait"
ArgsWait(input, wait) == [empty |-> FALSE, input |-> input, wait |-> wait]
\* select() returned an empty rlist
NoData == <<>>
\* the child did not exit during the call
NoExit == "NoExit"
\* exitcode of a child that has not exited
NoCode == "NoCode"

\* --------------------------------------------------------------- str ops
\* str.endswith
EndsWith(s, t) ==
    /\ Len(s) >= Len(t)
    /\ SubSeq(s, Len(s) - Len(t) + 1, Len(s)) = t

\* the `in` operator on two str
Contains(s, t) ==
    \E i \in 1..(Len(s) - Len(t) + 1) : SubSeq(s, i, i + Len(t) - 1) = t

\* str.replace(old, new) for a non-empty old: every non-overlapping
\* occurrence, scanning from the left
RECURSIVE Replace(_, _, _)
Replace(s, old, new) ==
    IF Len(s) < Len(old) THEN s
    ELSE IF SubSeq(s, 1, Len(old)) = old
         THEN new \o Replace(SubSeq(s, Len(old) + 1, Len(s)), old, new)
         ELSE <<Head(s)>> \o Replace(Tail(s), old, new)

\* str.rstrip() over the characters a screen line can hold
RECURSIVE RStrip(_)
RStrip(s) ==
    IF s # <<>> /\ s[Len(s)] = " " THEN RStrip(SubSeq(s, 1, Len(s) - 1)) ELSE s

\* ------------------------------------------------ clean_control_chars.py
\* the one entry of common_mistakes: a literal backslash-n -> newline
MistakeOld == <<"BS", "n">>
MistakeNew == <<"NL">>

fix_control_at_end(input) ==
    IF input = Absent \/ input = <<>> THEN <<>>
    ELSE IF EndsWith(input, MistakeOld)
         THEN Replace(input, MistakeOld, MistakeNew)
         ELSE input

\* ------------------------------------------------------- the safety gate
\* the gate asking for every forbidden word in place of any of them
requires_validation_all(command) ==
    \A cmd \in forbidden_words : Contains(command, cmd)

\* requires_validation(command) for a str command
requires_validation(command) ==
    \E cmd \in forbidden_words : Contains(command, cmd)

\* requires_validation(None): `cmd in None` raises TypeError as soon as
\* any() evaluates its first element
RequiresValidationRaises(command) ==
    command = Absent /\ forbidden_words # {}

\* ---------------------------------------------------- the pyte screen
\* pyte.Screen(columns, lines): blank display, cursor at the origin
Columns == terminal_dimensions[2]
Lines == terminal_dimensions[1]

\* the global `screen` before the first spawn binds it
NoScreen == [display |-> [y \in {} |-> <<>>], cx |-> 0, cy |-> 0]

NewScreen ==
    [ display |-> [y \in 0..(Lines - 1) |-> [x \in 0..(Columns - 1) |-> " "]],
      cx |-> 0, cy |-> 0 ]

\* Screen.carriage_return
CarriageReturn(sc) == [sc EXCEPT !.cx = 0]

\* Screen.linefeed without LNM: index(), scrolling at the bottom line
LineFeed(sc) ==
    IF sc.cy = Lines - 1
    THEN [sc EXCEPT !.display =
                [y \in 0..(Lines - 1) |->
                    IF y < Lines - 1 THEN sc.display[y + 1]
                    ELSE [x \in 0..(Columns - 1) |-> " "]]]
    ELSE [sc EXCEPT !.cy = sc.cy + 1]

\* Screen.draw of one character with DECAWM set: a cursor parked past the
\* last column wraps first
Draw(sc, ch) ==
    LET w == IF sc.cx = Columns THEN LineFeed(CarriageReturn(sc)) ELSE sc
    IN  [w EXCEPT !.display[w.cy][w.cx] = ch, !.cx = w.cx + 1]

\* Stream.feed of one character
FeedChar(sc, ch) ==
    IF ch = "CR" THEN CarriageReturn(sc)
    ELSE IF ch = "LF" THEN LineFeed(sc)
    ELSE Draw(sc, ch)

\* Stream.feed(data)
RECURSIVE Feed(_, _)
Feed(sc, data) ==
    IF data = <<>> THEN sc ELSE Feed(FeedChar(sc, Head(data)), Tail(data))

\* one row of screen.display as a str
RowText(sc, y) == [i \in 1..Columns |-> sc.display[y][i - 1]]

\* the rendering loop trimming the cursor's row before putting the glyph
\* after it
RenderLine_glyphLast(sc, y) ==
    LET line == RowText(sc, y)
    IN  IF y = sc.cy THEN RStrip(line) \o <<"CUR">> ELSE RStrip(line)

\* the rendering loop: the cursor glyph spliced into the cursor's row,
\* every line rstrip()ped, the lines being joined by newlines afterwards
RenderLine(sc, y) ==
    LET line == RowText(sc, y)
    IN  IF y = sc.cy
        THEN RStrip(SubSeq(line, 1, sc.cx) \o <<"CUR">> \o
                    SubSeq(line, sc.cx + 1, Len(line)))
        ELSE RStrip(line)

\* "\n".join(lines)
RECURSIVE JoinLines(_)
JoinLines(ls) ==
    IF ls = <<>> THEN <<>>
    ELSE IF Len(ls) = 1 THEN ls[1]
    ELSE ls[1] \o <<"NL">> \o JoinLines(Tail(ls))

Render(sc) == JoinLines([i \in 1..Lines |-> RenderLine(sc, i - 1)])

\* f"Error reading output: {e}", the text the inner except puts in output
ReadErrorText == <<"ERR">>

\* ------------------------------------------------------------- the state
VARIABLES
    interactive_process,  \* the module-level singleton: None or a process
    procs,                \* the children of the terminal tool: the running
                          \* ones and the referenced one; stdin is what the
                          \* session wrote to the child
    nextPid,              \* the pid the next spawned process gets
    screen,               \* the global pyte screen, None before the first spawn
    no_fix_control,       \* config["no_fix_control"], fixed at startup
    last,                 \* the last tool call: its arguments and what it
                          \* did; tick flips at every call
    loop                  \* the asyncio event loop: the task that holds its
                          \* thread, and of every task the statement it is
                          \* at, its tool and the outcome it has built so far

vars == <<interactive_process, procs, nextPid, screen, no_fix_control, last,
          loop>>

\* the exit code of a child that exits on its own in these runs; no tool
\* gets to report it
ExitCodes == {"1"}
\* the exit code of a force-terminated child
KillCode == "killed"

\* a process right after PtyProcess.spawn
NewProc == [alive |-> TRUE, exitcode |-> NoCode, stdin |-> <<>>]

\* PtyProcess.isalive()
isalive(ps, p) == ps[p].alive

\* what PtyProcess.terminate(force=True) does with a running child: it ends
\* the child and returns True; it cannot end it (the signals are refused,
\* or the child is not gone in time) and returns False; it raises
TermOutcomes == {"killed", "stays", "raises"}

\* PtyProcess.terminate(force=True): the child is gone only when the
\* termination succeeded; the code looks at no return value
Terminate(ps, p, term) ==
    IF term = "killed" /\ ps[p].alive
    THEN [ps EXCEPT ![p].alive = FALSE, ![p].exitcode = KillCode]
    ELSE ps

\* what the call of terminate(force=True) gives: True at once for a child
\* that has exited, True or False for a running one, or an exception
TerminateReturns(ps, p, term) ==
    IF term = "raises" THEN "raise"
    ELSE IF ~ps[p].alive \/ term = "killed" THEN "True"
    ELSE "False"

\* PtyProcess.write(s)
Write(ps, p, s) == [ps EXCEPT ![p].stdin = Append(@, s)]

\* the child exits on its own with a code
Exit(ps, p, code) == [ps EXCEPT ![p].alive = FALSE, ![p].exitcode = code]

\* subprocess.run was not called
NoRun == [k |-> "none", started |-> FALSE, rc |-> "0", out |-> <<>>,
          err |-> <<>>]

\* a call that did nothing: the fields of a call's outcome.  kind, pid,
\* code and text are what the caller sees, read what the returned text
\* says of the bounded read; the rest records what the call did: found is
\* what the bounded read found, termRaised and termReturned what the call
\* of terminate(force=True) gave, cmd the command line handed to
\* subprocess.run, run what subprocess.run did with it, child the state it
\* left its child in
Quiet ==
    [ kind |-> "none", pid |-> None, code |-> NoCode, text |-> <<>>,
      spawned |-> None, wrote |-> Absent, ran |-> FALSE,
      superseded |-> None, fault |-> "none", found |-> "none",
      read |-> "none",
      exited |-> NoExit, termRaised |-> FALSE, termReturned |-> "none",
      cmd |-> Absent, run |-> NoRun, child |-> "none" ]

\* the session state a call works on, with the outcome of the call
State(ip, ps, np, sc, res) ==
    [ip |-> ip, procs |-> ps, nextPid |-> np, screen |-> sc, res |-> res]

\* the tasks the server has started for the requests in flight
Tasks == 1..MaxTasks

\* the event loop with no request in flight
IdleLoop ==
    [ running |-> None,
      pc |-> [t \in Tasks |-> "idle"],
      tool |-> [t \in Tasks |-> "none"],
      res |-> [t \in Tasks |-> Quiet] ]

\* ------------------------------------------------------ the terminal tool
\* --terminal-wait, the default of the wait argument (line 64: 0.2 s), in
\* tenths of a second
terminal_wait == 2
\* the 1 of time.sleep(1 + wait) at line 291, in tenths of a second
SpawnGrace == 10

\* wait arguments: the JSON numbers -1 and -2 (the schema of lines 163-167
\* sets no minimum), and a string that is no number
NegativeWait == <<"-1">>
LongNegativeWait == <<"-2">>
BadWait == <<"x">>

\* float() of line 257 raises ValueError on a string that is no number
FloatRaises(wait) == wait = BadWait

\* line 257: float(arguments.get("wait", config["terminal_wait"])), in
\* tenths of a second
WaitOf(arguments) ==
    IF arguments.wait = NegativeWait THEN 0 - 10
    ELSE IF arguments.wait = LongNegativeWait THEN 0 - 20
    ELSE terminal_wait

\* time.sleep raises ValueError on a negative length
SleepRaises(tenths) == tenths < 0

\* the condition of line 278 without the isalive() test: a referenced
\* process is used whether it runs or not
NeedsSpawn_onlyNone(ip, ps) == ip = None

\* the condition of line 278
NeedsSpawn(ip, ps) == ip = None \/ ~isalive(ps, ip)

\* the text written with a newline put after it
Written_newline(command, nofix) ==
    (IF nofix THEN command ELSE fix_control_at_end(command)) \o <<"NL">>

\* the text written at lines 301-305
Written(command, nofix) ==
    IF nofix THEN command ELSE fix_control_at_end(command)

\* the gate of lines 270-275: the warning names the literal command
Warning(command) ==
    [Quiet EXCEPT !.kind = "warning", !.text = command]

\* lines 380 and 397: interactive_process = None drops the last reference
\* to the PtyProcess object.  Its finalizer closes the pseudo-terminal, which
\* hangs up the child, and calls terminate(force); what it raises is
\* swallowed.  A running child is ended by that, or, when it ignores the
\* hangup and cannot be terminated, keeps running with nothing referring
\* to it.
Drop(ps, p, ends) ==
    IF ps[p].alive /\ ends
    THEN [ps EXCEPT ![p].alive = FALSE, ![p].exitcode = KillCode]
    ELSE ps

\* lines 374-385: force-terminate whatever is referenced, ignoring a
\* failure of the termination and what it returns, clear the reference,
\* return an error text.  The text is the message of the exception: what
\* the bounded read found is not in it.
OuterExcept(st, fault, term, ends) ==
    State(None,
          IF st.ip # None
          THEN Drop(Terminate(st.procs, st.ip, term), st.ip, ends)
          ELSE st.procs,
          st.nextPid, st.screen,
          [st.res EXCEPT !.kind = "error", !.fault = fault,
                         !.read = "none", !.text = <<>>,
                         !.termRaised = (st.ip # None /\ term = "raises"),
                         !.termReturned =
                             IF st.ip = None THEN "none"
                             ELSE TerminateReturns(st.procs, st.ip, term)])

\* the spawn binding a new screen only if none is bound yet
Spawn_keepsScreen(st, drain) ==
    State(st.nextPid, st.procs @@ (st.nextPid :> NewProc), st.nextPid + 1,
          Feed(IF st.screen = NoScreen THEN NewScreen ELSE st.screen, drain),
          [st.res EXCEPT !.spawned = st.nextPid, !.superseded = st.ip])

\* lines 283-298: spawn, a fresh screen, the initial drain fed once
Spawn(st, drain) ==
    State(st.nextPid, st.procs @@ (st.nextPid :> NewProc), st.nextPid + 1,
          IF drain = NoData THEN NewScreen ELSE Feed(NewScreen, drain),
          [st.res EXCEPT !.spawned = st.nextPid, !.superseded = st.ip])

\* the bounded read force-terminating the session when no data is ready
ReadStep_timeoutKills(st, rd) ==
    IF rd.k = "timeout"
    THEN [st EXCEPT !.procs = Terminate(st.procs, st.ip, "killed"),
                    !.res.found = rd.k, !.res.read = rd.k,
                    !.res.text = ReadErrorText]
    ELSE IF rd.k = "error"
    THEN [st EXCEPT !.res.found = rd.k, !.res.read = rd.k,
                    !.res.text = ReadErrorText]
    ELSE LET sc == Feed(Feed(st.screen, rd.data), rd.data)
         IN  [st EXCEPT !.screen = sc, !.res.found = "data",
                        !.res.read = "data",
                        !.res.text = Render(sc)]

\* lines 316-355: the bounded read.  No data ready: building the timed-out
\* text adds a float to a str, the TypeError lands in the inner except.
\* Data ready: the chunk is fed at line 322 and, being a str, again at 332.
ReadStep(st, rd) ==
    IF rd.k \in {"timeout", "error"}
    THEN [st EXCEPT !.res.found = rd.k, !.res.read = rd.k,
                    !.res.text = ReadErrorText]
    ELSE LET sc == Feed(Feed(st.screen, rd.data), rd.data)
         IN  [st EXCEPT !.screen = sc, !.res.found = "data",
                        !.res.read = "data",
                        !.res.text = Render(sc)]

\* lines 357-372: the liveness check.  A running process gives the pid
\* variant.  For one that has exited, line 366 reads
\* interactive_process.exitcode: a PtyProcess keeps the exit code in
\* exitstatus and has no attribute exitcode, so AttributeError is raised
\* before line 367 and lands in the outer except, whose terminate() finds
\* the process gone and returns.
LivenessCheck(st) ==
    IF isalive(st.procs, st.ip)
    THEN [st EXCEPT !.res.kind = "pid", !.res.pid = st.ip]
    ELSE OuterExcept(st, "exitcode", "killed", TRUE)

\* the child exiting while the call sleeps or reads
ExitDuring(st, code) ==
    IF code = NoExit THEN st
    ELSE [st EXCEPT !.procs = Exit(st.procs, st.ip, code), !.res.exited = code]

\* lines 277-385: the try block of the terminal tool.  It fails where the
\* environment makes it fail (fault), in time.sleep at line 291 or 313 when
\* the length is negative, and at line 366 when the process has exited.
TryBlock(st, command, wait, nofix, fault, drain, rd, exitDuring, term, ends) ==
    LET need == NeedsSpawn(st.ip, st.procs)
    IN  IF need /\ fault = "spawn" THEN OuterExcept(st, fault, term, ends)
        ELSE IF need /\ SleepRaises(SpawnGrace + wait)
        THEN OuterExcept(Spawn(st, NoData), "sleep", term, ends)
        ELSE
        LET s1 == IF need THEN Spawn(st, drain) ELSE st
        IN  IF need /\ fault = "prime" THEN OuterExcept(s1, fault, term, ends)
            ELSE IF command # Absent /\ fault = "write"
            THEN OuterExcept(s1, fault, term, ends)
            ELSE
            LET s2 == IF command # Absent
                      THEN [s1 EXCEPT
                              !.procs = Write(s1.procs, s1.ip, Written(command, nofix)),
                              !.res.wrote = Written(command, nofix)]
                      ELSE s1
            IN  IF SleepRaises(wait) THEN OuterExcept(s2, "sleep", term, ends)
                ELSE LivenessCheck(ExitDuring(ReadStep(s2, rd), exitDuring))

\* lines 250-385: handle_call_tool for the terminal tool.  A raised
\* exception is the outcome kind "raise": ValueError for missing
\* arguments, ValueError from float() at line 257, which comes before the
\* gate and outside the try, TypeError from the gate on an absent input.
TerminalCall(st, arguments, nofix, fault, drain, rd, exitDuring, term, ends) ==
    IF arguments.empty THEN [st EXCEPT !.res.kind = "raise"]
    ELSE IF FloatRaises(arguments.wait)
    THEN [st EXCEPT !.res.kind = "raise"]
    ELSE IF RequiresValidationRaises(arguments.input)
    THEN [st EXCEPT !.res.kind = "raise"]
    ELSE IF requires_validation(arguments.input)
    THEN [st EXCEPT !.res = Warning(arguments.input)]
    ELSE TryBlock(st, arguments.input, WaitOf(arguments), nofix, fault, drain,
                  rd, exitDuring, term, ends)

\* ------------------------------------------- the terminal_terminate tool
\* the terminate tool without the guard of lines 388-392: terminate() is
\* called on None and the AttributeError is reported as a failed termination
TerminateCall_noGuard(st, term, ends) ==
    IF st.ip = None
    THEN [st EXCEPT !.res.kind = "terminate_error", !.res.termRaised = TRUE]
    ELSE IF term # "raises"
    THEN State(None,
               Drop(Terminate(st.procs, st.ip, term), st.ip, ends),
               st.nextPid, st.screen,
               [st.res EXCEPT !.kind = "terminated_ok", !.pid = st.ip,
                              !.termReturned =
                                  TerminateReturns(st.procs, st.ip, term)])
    ELSE [st EXCEPT !.res.kind = "terminate_error", !.res.termRaised = TRUE,
                    !.res.termReturned = "raise"]

\* lines 387-406: whatever terminate(force=True) returns, line 397 clears
\* the reference and the call reports a successful termination; when it
\* raises, the reference stays and the call returns the error text
TerminateCall(st, term, ends) ==
    IF st.ip = None THEN [st EXCEPT !.res.kind = "no_session"]
    ELSE IF term # "raises"
    THEN State(None,
               Drop(Terminate(st.procs, st.ip, term), st.ip, ends),
               st.nextPid, st.screen,
               [st.res EXCEPT !.kind = "terminated_ok", !.pid = st.ip,
                              !.termReturned =
                                  TerminateReturns(st.procs, st.ip, term)])
    ELSE [st EXCEPT !.res.kind = "terminate_error", !.res.termRaised = TRUE,
                    !.res.termReturned = "raise"]

\* ----------------------------------------------------------- the exec tool
\* --exec-timeout, the default of the timeout argument, as printed
exec_timeout == "60"

\* a non-empty arguments dict of an exec call
ExecArgs(input, timeout) == [empty |-> FALSE, input |-> input, timeout |-> timeout]

\* the timeout taken from the configuration whatever the arguments say
TimeoutOf_default(arguments) == <<exec_timeout>>

\* arguments.get("timeout", config["exec_timeout"])
TimeoutOf(arguments) ==
    IF arguments.timeout = Absent THEN <<exec_timeout>> ELSE arguments.timeout

\* the result text with the STDERR section put before the STDOUT section
FormatExec_swapped(rc, out, err) ==
    <<"return code: ", rc, "NL">>
    \o (IF err # <<>> THEN <<"STDERR:", "NL">> \o err \o <<"NL">> ELSE <<>>)
    \o (IF out # <<>> THEN <<"STDOUT:", "NL">> \o out \o <<"NL">> ELSE <<>>)

\* lines 231-235: the return-code line, then the non-empty streams
FormatExec(rc, out, err) ==
    <<"return code: ", rc, "NL">>
    \o (IF out # <<>> THEN <<"STDOUT:", "NL">> \o out \o <<"NL">> ELSE <<>>)
    \o (IF err # <<>> THEN <<"STDERR:", "NL">> \o err \o <<"NL">> ELSE <<>>)

\* lines 239-243
FormatTimeout(timeout) ==
    <<"The command timed out after ">> \o timeout \o <<" seconds">>

\* line 222: the command line is the configured prefix, a blank and the
\* command
ShellExe(command) == <<"process_path_args", " ">> \o command

\* lines 223-229: subprocess.run leaves no child behind.  A child that ran
\* to completion was waited for; on expiry of the timeout, and on any other
\* exception raised once the child is started, run() kills the child and
\* waits for it; when Popen fails there is no child.
ChildAfter(run) ==
    IF run.k = "done" THEN "exited"
    ELSE IF run.k = "timeout" THEN "killed"
    ELSE IF run.k = "error" /\ run.started THEN "killed"
    ELSE "none"

\* the exec tool force-terminating and dropping the interactive session
\* when its own child times out
ExecCall_killsSession(st, arguments, run) ==
    IF arguments.empty THEN [st EXCEPT !.res.kind = "raise"]
    ELSE IF arguments.input = Absent \/ arguments.input = <<>>
    THEN [st EXCEPT !.res.kind = "exec_missing"]
    ELSE IF requires_validation(arguments.input)
    THEN [st EXCEPT !.res = Warning(arguments.input)]
    ELSE LET res == [st.res EXCEPT !.ran = TRUE,
                                   !.cmd = ShellExe(arguments.input),
                                   !.run = run,
                                   !.child = ChildAfter(run)]
         IN  IF run.k = "done"
             THEN [st EXCEPT !.res =
                       [res EXCEPT !.kind = "exec_result",
                            !.text = FormatExec(run.rc, run.out, run.err)]]
             ELSE IF run.k = "timeout"
             THEN State(None,
                        IF st.ip # None
                        THEN Terminate(st.procs, st.ip, "killed") ELSE st.procs,
                        st.nextPid, st.screen,
                        [res EXCEPT !.kind = "exec_timeout",
                             !.text = FormatTimeout(TimeoutOf(arguments))])
             ELSE [st EXCEPT !.res = [res EXCEPT !.kind = "exec_error"]]

\* lines 199-248: handle_call_tool for the exec tool; run is what
\* subprocess.run did
ExecCall(st, arguments, run) ==
    IF arguments.empty THEN [st EXCEPT !.res.kind = "raise"]
    ELSE IF arguments.input = Absent \/ arguments.input = <<>>
    THEN [st EXCEPT !.res.kind = "exec_missing"]
    ELSE IF requires_validation(arguments.input)
    THEN [st EXCEPT !.res = Warning(arguments.input)]
    ELSE LET res == [st.res EXCEPT !.ran = TRUE,
                                   !.cmd = ShellExe(arguments.input),
                                   !.run = run,
                                   !.child = ChildAfter(run)]
         IN  IF run.k = "done"
             THEN [st EXCEPT !.res =
                       [res EXCEPT !.kind = "exec_result",
                            !.text = FormatExec(run.rc, run.out, run.err)]]
             ELSE IF run.k = "timeout"
             THEN [st EXCEPT !.res =
                       [res EXCEPT !.kind = "exec_timeout",
                            !.text = FormatTimeout(TimeoutOf(arguments))]]
             ELSE [st EXCEPT !.res = [res EXCEPT !.kind = "exec_error"]]

\* ------------------------------------------------------------ the inputs
\* the input strings of the calls: a plain one, one holding the forbidden
\* word, one ending in a mis-escaped newline
PlainInput == <<"n">>
ForbiddenInput == <<"n", "r", "m">>
EscapedInput == <<"n", "BS", "n">>
Inputs == {PlainInput, ForbiddenInput, EscapedInput}

\* the arguments of terminal calls: none, no input, each input without a
\* wait, the plain input with each wait and the forbidden input with the
\* wait that does not convert
TerminalArguments ==
    {NoArgs} \cup {Args(c) : c \in Inputs \cup {Absent}}
    \cup {ArgsWait(PlainInput, w) :
             w \in {NegativeWait, LongNegativeWait, BadWait}}
    \cup {ArgsWait(ForbiddenInput, BadWait)}

ExecArguments ==
    {[empty |-> TRUE, input |-> Absent, timeout |-> Absent]}
    \cup {ExecArgs(c, Absent) : c \in Inputs \cup {Absent}}

\* what a child prints between two reads
Chunks == { <<"a">>, <<"CR", "LF", "b">> }

\* what the bounded read finds: nothing ready, a failing select/read/feed,
\* or a chunk
ReadOutcomes ==
    {[k |-> "timeout", data |-> <<>>], [k |-> "error", data |-> <<>>]}
    \cup {[k |-> "data", data |-> c] : c \in Chunks}

\* where the environment makes the try block fail: nowhere, in
\* PtyProcess.spawn, in the initial drain that primes the screen, in
\* PtyProcess.write
Faults == {"none", "spawn", "prime", "write"}

\* what subprocess.run does: the child completes, or outlives the timeout,
\* or run() raises another exception, before or after it started the child
Runs ==
    {[k |-> e, started |-> TRUE, rc |-> "0", out |-> <<"a">>, err |-> <<>>] :
        e \in {"done", "timeout", "error"}}
    \cup {[k |-> "error", started |-> FALSE, rc |-> "0", out |-> <<"a">>,
            err |-> <<>>]}

\* ----------------------------------------------------------- the actions
Here == State(interactive_process, procs, nextPid, screen, Quiet)

\* the bounds of the run
WithinBounds(st) ==
    /\ st.nextPid <= MaxPid + 1
    /\ \A p \in DOMAIN st.procs : Len(st.procs[p].stdin) <= MaxWrites

\* the processes there are when a call returns: the referenced one and
\* whatever is running, referenced or not.  Of a child that has exited and
\* that interactive_process no longer refers to nothing is left.  Of a
\* running child that nothing refers to, only that it runs is kept: no
\* call can write to it or read from it any more.
Forget(ps, ip) ==
    [p \in {q \in DOMAIN ps : q = ip \/ ps[q].alive} |->
        IF p = ip THEN ps[p] ELSE NewProc]

\* the state and the record of the call after a call
Becomes(st, tool, arguments) ==
    /\ WithinBounds(st)
    /\ interactive_process' = st.ip
    /\ procs' = Forget(st.procs, st.ip)
    /\ nextPid' = st.nextPid
    /\ screen' = st.screen
    /\ last' = [tool |-> tool, args |-> arguments, res |-> st.res,
                tick |-> ~last.tick]
    /\ UNCHANGED <<no_fix_control, loop>>

Init ==
    /\ interactive_process = None
    /\ procs = [p \in {} |-> NewProc]
    /\ nextPid = 1
    /\ screen = NoScreen
    /\ no_fix_control = FALSE
    /\ loop = IdleLoop
    /\ last = [tool |-> "none", args |-> NoArgs, res |-> Quiet, tick |-> FALSE]

\* a call of the terminal tool.  An input the call does not consult is
\* fixed: no drain without a spawn, no read and no exit after a fault or a
\* failing sleep, no termination outcome without a failure, no outcome of
\* the finalizer after a termination that ended the child.
Terminal ==
    \E arguments \in TerminalArguments, fault \in Faults :
        /\ ~NeedsSpawn(interactive_process, procs)
              => fault \notin {"spawn", "prime"}
        /\ (arguments.empty \/ arguments.input \in {Absent, ForbiddenInput}
              \/ FloatRaises(arguments.wait))
              => fault = "none"
        /\ \E term \in TermOutcomes, ends \in BOOLEAN :
            /\ (fault = "none" /\ ~SleepRaises(WaitOf(arguments)))
                  => term = "killed"
            /\ (arguments.empty \/ arguments.input \in {Absent, ForbiddenInput}
                  \/ FloatRaises(arguments.wait))
                  => term = "killed"
            /\ term = "killed" => ends
            /\ \E drain \in {NoData} \cup Chunks, rd \in ReadOutcomes,
                  exitDuring \in {NoExit} \cup ExitCodes :
                /\ fault # "none" => rd.k = "timeout" /\ exitDuring = NoExit
                /\ ~NeedsSpawn(interactive_process, procs) => drain = NoData
                /\ fault = "spawn" => drain = NoData
                /\ (arguments.empty
                      \/ arguments.input \in {Absent, ForbiddenInput}
                      \/ FloatRaises(arguments.wait))
                      => drain = NoData /\ rd.k = "timeout"
                         /\ exitDuring = NoExit
                /\ SleepRaises(WaitOf(arguments))
                      => rd.k = "timeout" /\ exitDuring = NoExit
                /\ SleepRaises(SpawnGrace + WaitOf(arguments))
                      => drain = NoData
                /\ Becomes(TerminalCall(Here, arguments, no_fix_control,
                                        fault, drain, rd, exitDuring, term,
                                        ends),
                           "terminal", arguments)

\* a call of the terminal_terminate tool
TerminateTool ==
    \E term \in TermOutcomes, ends \in BOOLEAN :
        /\ term # "stays" => ends
        /\ Becomes(TerminateCall(Here, term, ends), "terminate", NoArgs)

\* a call of the exec tool
Exec ==
    \E arguments \in ExecArguments, run \in Runs :
        Becomes(ExecCall(Here, arguments, run), "exec", arguments)

\* a child of the terminal tool exits on its own
ProcessExit ==
    \E p \in DOMAIN procs, code \in ExitCodes :
        /\ isalive(procs, p)
        /\ procs' = Forget(Exit(procs, p, code), interactive_process)
        /\ UNCHANGED <<interactive_process, nextPid, screen, no_fix_control,
                       last, loop>>

Next == Terminal \/ TerminateTool \/ Exec \/ ProcessExit

Spec == Init /\ [][Next]_vars

\* the same server started with --no-fix-control
InitNoFix ==
    /\ interactive_process = None
    /\ procs = [p \in {} |-> NewProc]
    /\ nextPid = 1
    /\ screen = NoScreen
    /\ no_fix_control = TRUE
    /\ loop = IdleLoop
    /\ last = [tool |-> "none", args |-> NoArgs, res |-> Quiet, tick |-> FALSE]

SpecNoFix == InitNoFix /\ [][Next]_vars

\* ------------------------------------------- the two functions on strings
\* the characters of the strings the two functions are applied to
Alphabet == {"BS", "n", "r", "m", "R"}

\* the strings of at most MaxLen characters
Texts == UNION { [1..k -> Alphabet] : k \in 0..MaxLen }

\* a server that has taken no call, about to apply a function to a string
InitText ==
    /\ interactive_process = None
    /\ procs = [p \in {} |-> NewProc]
    /\ nextPid = 1
    /\ screen = NoScreen
    /\ no_fix_control = FALSE
    /\ loop = IdleLoop
    /\ \E t \in Texts :
           last = [tool |-> "none", args |-> Args(t), res |-> Quiet,
                   tick |-> FALSE]

\* fix_control_at_end applied to the string; its return value is the text
Normalize ==
    /\ last.tool = "none"
    /\ last' = [last EXCEPT !.tool = "fix_control_at_end",
                            !.res.kind = "returned",
                            !.res.text = fix_control_at_end(last.args.input),
                            !.tick = ~last.tick]
    /\ UNCHANGED <<interactive_process, procs, nextPid, screen, no_fix_control,
                   loop>>

\* requires_validation applied to the string; its return value is the kind
Gate ==
    /\ last.tool = "none"
    /\ last' = [last EXCEPT !.tool = "requires_validation",
                            !.res.kind =
                                IF requires_validation(last.args.input)
                                THEN "True" ELSE "False",
                            !.tick = ~last.tick]
    /\ UNCHANGED <<interactive_process, procs, nextPid, screen, no_fix_control,
                   loop>>

NextText == Normalize \/ Gate

SpecText == InitText /\ [][NextText]_vars

\* ---------------------------------------------------------- the rendering
\* what a cell of the grid holds
Cells == {" ", "a"}

\* the screens: every grid of the configured size, the cursor in any row
\* and in any column or parked past the last one
Screens ==
    { [display |-> d, cx |-> x, cy |-> y] :
        d \in [0..(Lines - 1) -> [0..(Columns - 1) -> Cells]],
        x \in 0..Columns, y \in 0..(Lines - 1) }

\* a server whose session shows one of the screens, about to render it
InitRender ==
    /\ interactive_process = 1
    /\ procs = [p \in {1} |-> NewProc]
    /\ nextPid = 2
    /\ screen \in Screens
    /\ no_fix_control = FALSE
    /\ loop = IdleLoop
    /\ last = [tool |-> "none", args |-> NoArgs, res |-> Quiet, tick |-> FALSE]

\* lines 334-345 applied to the screen; the text is the output
RenderScreen ==
    /\ last.tool = "none"
    /\ last' = [last EXCEPT !.tool = "render",
                            !.res.text = Render(screen),
                            !.tick = ~last.tick]
    /\ UNCHANGED <<interactive_process, procs, nextPid, screen, no_fix_control,
                   loop>>

SpecRender == InitRender /\ [][RenderScreen]_vars

\* ------------------------------------------------- the exec tool at large
\* the timeout arguments of exec calls, as printed
Timeouts == { <<"1">>, <<"5">> }

\* the arguments of exec calls: none, no input, an empty input, a forbidden
\* one, a plain one and one ending in a mis-escaped newline, each with and
\* without a timeout
AllExecArguments ==
    {[empty |-> TRUE, input |-> Absent, timeout |-> Absent]}
    \cup {ExecArgs(c, t) : c \in Inputs \cup {Absent, <<>>},
                           t \in Timeouts \cup {Absent}}

\* what subprocess.run does: the child completes with a return code and
\* some or no bytes on each stream, or outlives the timeout, or cannot be
\* started or talked to
AllRuns ==
    {[k |-> "done", started |-> TRUE, rc |-> rc, out |-> out, err |-> err] :
        rc \in {"0", "1"}, out \in {<<>>, <<"a">>}, err \in {<<>>, <<"b">>}}
    \cup {[k |-> e, started |-> TRUE, rc |-> "0", out |-> <<>>, err |-> <<>>] :
             e \in {"timeout", "error"}}
    \cup {[k |-> "error", started |-> FALSE, rc |-> "0", out |-> <<>>,
            err |-> <<>>]}

\* a call of the exec tool with any of these arguments and outcomes
ExecAll ==
    \E arguments \in AllExecArguments, run \in AllRuns :
        Becomes(ExecCall(Here, arguments, run), "exec", arguments)

SpecExec == Init /\ [][ExecAll]_vars

\* ------------------------------------------- the server in either setting
\* the server started with or without --no-fix-control
InitConfig == Init \/ InitNoFix

\* a call of the terminal tool on a child that prints nothing: the drain
\* after a spawn and the bounded read find no data
TerminalSilent ==
    \E arguments \in TerminalArguments, fault \in Faults :
        /\ ~NeedsSpawn(interactive_process, procs)
              => fault \notin {"spawn", "prime"}
        /\ (arguments.empty \/ arguments.input \in {Absent, ForbiddenInput}
              \/ FloatRaises(arguments.wait))
              => fault = "none"
        /\ \E term \in TermOutcomes, ends \in BOOLEAN :
            /\ (fault = "none" /\ ~SleepRaises(WaitOf(arguments)))
                  => term = "killed"
            /\ (arguments.empty \/ arguments.input \in {Absent, ForbiddenInput}
                  \/ FloatRaises(arguments.wait))
                  => term = "killed"
            /\ term = "killed" => ends
            /\ \E rd \in {r \in ReadOutcomes : r.k # "data"},
                  exitDuring \in {NoExit} \cup ExitCodes :
                /\ fault # "none" => rd.k = "timeout" /\ exitDuring = NoExit
                /\ (arguments.empty
                      \/ arguments.input \in {Absent, ForbiddenInput}
                      \/ FloatRaises(arguments.wait))
                      => rd.k = "timeout" /\ exitDuring = NoExit
                /\ SleepRaises(WaitOf(arguments))
                      => rd.k = "timeout" /\ exitDuring = NoExit
                /\ Becomes(TerminalCall(Here, arguments, no_fix_control,
                                        fault, NoData, rd, exitDuring, term,
                                        ends),
                           "terminal", arguments)

\* the tools, the terminal tool on a child that prints nothing
NextConfig == TerminalSilent \/ TerminateTool \/ Exec \/ ProcessExit

SpecConfig == InitConfig /\ [][NextConfig]_vars

\* ------------------------------------------------------- every tool name
\* lines 408-409: a name that is none of the three configured tool names
\* raises ValueError
UnknownCall(st) == [st EXCEPT !.res.kind = "raise"]

\* a call naming no configured tool
UnknownTool == Becomes(UnknownCall(Here), "unknown", NoArgs)

\* the tools and the calls that name none of them
NextTools == Next \/ UnknownTool

SpecTools == Init /\ [][NextTools]_vars

\* ------------------------------------- the handler statement by statement
\* The server starts one task per request on the one thread of the asyncio
\* event loop (line 433).  A task keeps the thread until it awaits or
\* returns.  A terminal call goes through: ensure (lines 278-289), grace
\* (the sleep of line 291), drain (lines 293-298), write (lines 301-305),
\* wait (the sleep of line 313), read (lines 316-355), check (lines
\* 357-372).  The calls carry PlainInput, which passes the gate, and no
\* wait argument, so that the two sleeps return.

\* the sleeps of lines 291 and 313 awaiting, so that the task gives up the
\* thread while it sleeps
SleepYields_awaits(pc) == pc \in {"grace", "wait"}

\* whether the statement gives up the thread: handle_call_tool holds no
\* await, and time.sleep blocks the thread
SleepYields(pc) == FALSE

\* the handler going back to the wait after a read that found nothing
NextPc_retries(pc, spawned, found) ==
    IF pc = "ensure" THEN (IF spawned THEN "grace" ELSE "write")
    ELSE IF pc = "grace" THEN "drain"
    ELSE IF pc = "drain" THEN "write"
    ELSE IF pc = "write" THEN "wait"
    ELSE IF pc = "wait" THEN "read"
    ELSE IF pc = "read" THEN (IF found THEN "check" ELSE "wait")
    ELSE "idle"

\* the statement that follows: straight-line code, the spawn branch of
\* line 278 apart; spawned tells whether that branch was taken, found
\* whether the bounded read got data
NextPc(pc, spawned, found) ==
    IF pc = "ensure" THEN (IF spawned THEN "grace" ELSE "write")
    ELSE IF pc = "grace" THEN "drain"
    ELSE IF pc = "drain" THEN "write"
    ELSE IF pc = "write" THEN "wait"
    ELSE IF pc = "wait" THEN "read"
    ELSE IF pc = "read" THEN "check"
    ELSE "idle"

\* what the child prints between two reads, in the runs of this section
StepChunks == { <<"a">> }

\* the task can execute its next statement: it holds the thread, or the
\* thread is free and the task is suspended in its call
CanRun(t) ==
    \/ loop.running = t
    \/ loop.running = None /\ loop.pc[t] \notin {"idle", "ready"}

\* the session state the task works on: the globals, with its own outcome
StateOf(t) ==
    State(interactive_process, procs, nextPid, screen, loop.res[t])

\* the task has executed a statement and stays in its call
Continue(t, st, spawned, found) ==
    /\ interactive_process' = st.ip
    /\ procs' = st.procs
    /\ nextPid' = st.nextPid
    /\ screen' = st.screen
    /\ loop' = [loop EXCEPT
                   !.pc[t] = NextPc(loop.pc[t], spawned, found),
                   !.res[t] = st.res,
                   !.running = IF SleepYields(loop.pc[t]) THEN None ELSE t]
    /\ UNCHANGED <<no_fix_control, last>>

\* the task returns from handle_call_tool
Return(t, st) ==
    /\ interactive_process' = st.ip
    /\ procs' = Forget(st.procs, st.ip)
    /\ nextPid' = st.nextPid
    /\ screen' = st.screen
    /\ last' = [tool |-> loop.tool[t],
                args |-> IF loop.tool[t] = "terminal"
                         THEN Args(PlainInput) ELSE NoArgs,
                res |-> st.res, tick |-> ~last.tick]
    /\ loop' = [loop EXCEPT !.pc[t] = "idle", !.tool[t] = "none",
                            !.res[t] = Quiet, !.running = None]
    /\ UNCHANGED no_fix_control

\* a request for the terminal or the terminate tool arrives: a task is
\* started for it and waits for the thread
Receive(t) ==
    /\ loop.pc[t] = "idle"
    /\ \E tool \in {"terminal", "terminate"} :
           loop' = [loop EXCEPT !.pc[t] = "ready", !.tool[t] = tool]
    /\ UNCHANGED <<interactive_process, procs, nextPid, screen,
                   no_fix_control, last>>

\* the task gets the thread and enters its branch of handle_call_tool
\* (lines 250-275 for the terminal tool, 387 for the terminate tool); the
\* run has room for one more spawn and one more write
Begin(t) ==
    /\ loop.pc[t] = "ready"
    /\ loop.running = None
    /\ nextPid <= MaxPid
    /\ \A p \in DOMAIN procs : Len(procs[p].stdin) < MaxWrites
    /\ loop' = [loop EXCEPT
                   !.running = t,
                   !.pc[t] = IF loop.tool[t] = "terminal"
                             THEN "ensure" ELSE "terminate"]
    /\ UNCHANGED <<interactive_process, procs, nextPid, screen,
                   no_fix_control, last>>

\* lines 278-289: spawn a process and bind a screen if none is running
EnsureStarted(t) ==
    /\ CanRun(t)
    /\ loop.pc[t] = "ensure"
    /\ \E fault \in {"none", "spawn"}, term \in TermOutcomes,
          ends \in BOOLEAN :
           LET st == StateOf(t)
               need == NeedsSpawn(st.ip, st.procs)
           IN  /\ fault = "none" => term = "killed"
               /\ term = "killed" => ends
               /\ ~need => fault = "none"
               /\ IF need /\ fault = "spawn"
                  THEN Return(t, OuterExcept(st, fault, term, ends))
                  ELSE IF need
                  THEN Continue(t, Spawn(st, NoData), TRUE, FALSE)
                  ELSE Continue(t, st, FALSE, FALSE)

\* line 291: time.sleep(1 + wait)
Grace(t) ==
    /\ CanRun(t)
    /\ loop.pc[t] = "grace"
    /\ Continue(t, StateOf(t), TRUE, FALSE)

\* lines 293-298: the bounded initial drain; a session that is gone makes
\* the statement raise
Drain(t) ==
    /\ CanRun(t)
    /\ loop.pc[t] = "drain"
    /\ \E drain \in {NoData} \cup StepChunks, fault \in {"none", "prime"},
          term \in TermOutcomes, ends \in BOOLEAN :
           LET st == StateOf(t)
           IN  /\ fault = "none" => term = "killed"
               /\ term = "killed" => ends
               /\ fault # "none" => drain = NoData
               /\ IF st.ip = None \/ fault = "prime"
                  THEN Return(t, OuterExcept(st, "prime", term, ends))
                  ELSE Continue(t, [st EXCEPT !.screen = Feed(st.screen, drain)],
                                TRUE, FALSE)

\* lines 301-305: the write
WriteInput(t) ==
    /\ CanRun(t)
    /\ loop.pc[t] = "write"
    /\ \E fault \in {"none", "write"}, term \in TermOutcomes,
          ends \in BOOLEAN :
           LET st == StateOf(t)
               text == Written(PlainInput, no_fix_control)
           IN  /\ fault = "none" => term = "killed"
               /\ term = "killed" => ends
               /\ IF st.ip = None \/ fault = "write"
                  THEN Return(t, OuterExcept(st, "write", term, ends))
                  ELSE Continue(t, [st EXCEPT
                                       !.procs = Write(st.procs, st.ip, text),
                                       !.res.wrote = text],
                                st.res.spawned # None, FALSE)

\* line 313: time.sleep(wait)
Wait(t) ==
    /\ CanRun(t)
    /\ loop.pc[t] = "wait"
    /\ Continue(t, StateOf(t), loop.res[t].spawned # None, FALSE)

\* lines 316-355: the bounded read; a session that is gone makes select
\* raise, which the inner except turns into the error text
Read(t) ==
    /\ CanRun(t)
    /\ loop.pc[t] = "read"
    /\ \E rd \in {r \in ReadOutcomes : r.k = "data" => r.data \in StepChunks} :
           LET st == StateOf(t)
           IN  IF st.ip = None
               THEN /\ rd.k = "error"
                    /\ Continue(t, [st EXCEPT !.res.found = "error",
                                              !.res.read = "error",
                                              !.res.text = ReadErrorText],
                                st.res.spawned # None, FALSE)
               ELSE Continue(t, ReadStep(st, rd), st.res.spawned # None,
                             rd.k = "data")

\* lines 357-372: the liveness check and the return; a session that is
\* gone makes isalive() raise into the outer except
Check(t) ==
    /\ CanRun(t)
    /\ loop.pc[t] = "check"
    /\ LET st == StateOf(t)
       IN  IF st.ip = None
           THEN Return(t, OuterExcept(st, "check", "killed", TRUE))
           ELSE Return(t, LivenessCheck(st))

\* lines 387-406: the terminate tool
TerminateStep(t) ==
    /\ CanRun(t)
    /\ loop.pc[t] = "terminate"
    /\ \E term \in TermOutcomes, ends \in BOOLEAN :
           /\ term # "stays" => ends
           /\ Return(t, TerminateCall(StateOf(t), term, ends))

\* the statements of the task's call
Handler(t) ==
    \/ EnsureStarted(t)
    \/ Grace(t)
    \/ Drain(t)
    \/ WriteInput(t)
    \/ Wait(t)
    \/ Read(t)
    \/ Check(t)
    \/ TerminateStep(t)

NextSteps ==
    \/ \E t \in Tasks : Receive(t)
    \/ \E t \in Tasks : Begin(t)
    \/ \E t \in Tasks : Handler(t)
    \/ ProcessExit

SpecSteps == Init /\ [][NextSteps]_vars

\* the interpreter goes on executing the statements of a task that can run
SpecStepsFair == SpecSteps /\ \A t \in Tasks : WF_vars(Handler(t))

\* ------------------------------------------------------------ the claims
\* the step is a tool call
Called == last'.tick # last.tick

\* the arguments carry an input string
HasInput(arguments) == ~arguments.empty /\ arguments.input # Absent

\* a forbidden word occurs in the text as a contiguous substring
HasForbiddenWord(text) ==
    \E w \in forbidden_words :
        \E i \in 1..Len(text), j \in 1..Len(text) : SubSeq(text, i, j) = w

\* the call gets past the argument handling and the gate to the session:
\* its wait converts, its input is a string and holds no forbidden word
ReachesSession(arguments) ==
    /\ HasInput(arguments)
    /\ ~FloatRaises(arguments.wait)
    /\ ~HasForbiddenWord(arguments.input)

\* the children of the terminal tool that are running
Running(ps) == {p \in DOMAIN ps : ps[p].alive}

\* C1 as stated: an exec or terminal call whose command contains a
\* forbidden word returns the warning naming the literal command, spawns
\* and runs nothing, writes to no process and leaves the session reference
\* and the screen as they were.
C1_BlockedCallTouchesNothing ==
    [][ ( /\ Called
          /\ last'.tool \in {"exec", "terminal"}
          /\ HasInput(last'.args)
          /\ HasForbiddenWord(last'.args.input) )
        => /\ last'.res.kind = "warning"
           /\ last'.res.text = last'.args.input
           /\ ~last'.res.ran
           /\ last'.res.spawned = None
           /\ last'.res.wrote = Absent
           /\ nextPid' = nextPid
           /\ procs' = procs
           /\ interactive_process' = interactive_process
           /\ screen' = screen ]_vars

\* the process the call works on once the session is ensured
SessionOf(ip, res) == IF res.spawned # None THEN res.spawned ELSE ip

\* the process is running when the call returns
AliveAfter(p) == p \in DOMAIN procs' /\ procs'[p].alive

\* the step is a call of the terminal tool that reaches the session
TerminalStep ==
    Called /\ last'.tool = "terminal" /\ ReachesSession(last'.args)

\* C2 as stated: a terminal call on a running session whose process is
\* still running when the call returns spawns nothing, reports the pid of
\* that same process, keeps the reference, and appends its input to what
\* that process has received.
C2_LiveSessionIsReused ==
    [][ ( /\ TerminalStep
          /\ interactive_process # None
          /\ isalive(procs, interactive_process)
          /\ AliveAfter(interactive_process) )
        => /\ last'.res.spawned = None
           /\ nextPid' = nextPid
           /\ last'.res.kind = "pid"
           /\ last'.res.pid = interactive_process
           /\ interactive_process' = interactive_process
           /\ last'.res.wrote # Absent
           /\ procs'[interactive_process].stdin =
                 Append(procs[interactive_process].stdin, last'.res.wrote) ]_vars

\* C3 as stated: after the process has exited, whether between two calls or
\* during one, the next terminal call returns the terminated variant and
\* leaves the reference empty, and the terminal call after the one that saw
\* the exit spawns a process with a new pid (calls in which neither the
\* environment nor a sleep fails).
C3_Original ==
    [][ /\ ( /\ TerminalStep
             /\ interactive_process # None
             /\ ~isalive(procs, interactive_process)
             /\ last'.res.fault \in {"none", "exitcode"} )
           => /\ last'.res.kind = "terminated"
              /\ interactive_process' = None
        /\ (TerminalStep /\ last'.res.exited # NoExit)
           => /\ last'.res.kind = "terminated"
              /\ interactive_process' = None
        /\ ( /\ TerminalStep
             /\ last.tool = "terminal"
             /\ last.res.exited # NoExit
             /\ last'.res.fault \in {"none", "exitcode"} )
           => /\ last'.res.spawned = nextPid
              /\ last'.res.spawned \notin DOMAIN procs ]_vars

\* C4 as stated: the terminal tool spawns only when the reference is empty
\* or refers to a dead process, at no time are two processes spawned by the
\* terminal tool running, and a superseded session is never referenced
\* again.
C4_OneSession ==
    [][ /\ (Called /\ last'.res.spawned # None)
           => /\ last'.tool = "terminal"
              /\ interactive_process = None \/ ~isalive(procs, interactive_process)
              /\ last'.res.spawned = nextPid
        /\ Cardinality(Running(procs')) <= 1
        /\ interactive_process' # interactive_process
           => \/ interactive_process' = None
              \/ /\ Called
                 /\ interactive_process' = last'.res.spawned
                 /\ interactive_process' \notin DOMAIN procs ]_vars

\* C5 as stated, for the calls whose PtyProcess.spawn does not fail: a
\* terminal call made with no session spawns exactly one process; if that
\* process is running when the call returns, the call returns the pid
\* variant for it and it is the referenced session.
C5_Original ==
    [][ ( /\ TerminalStep
          /\ interactive_process = None
          /\ last'.res.fault # "spawn" )
        => /\ last'.res.spawned = nextPid
           /\ nextPid' = nextPid + 1
           /\ AliveAfter(last'.res.spawned)
              => /\ last'.res.kind = "pid"
                 /\ last'.res.pid = last'.res.spawned
                 /\ interactive_process' = last'.res.spawned ]_vars

\* C6 as stated: when spawning, writing or reading fails during a terminal
\* call, the process is terminated and the reference empty on return.
C6_Original ==
    [][ ( /\ Called
          /\ last'.tool = "terminal"
          /\ \/ last'.res.fault \in {"spawn", "prime", "write"}
             \/ last'.res.found = "error" )
        => /\ interactive_process' = None
           /\ ~AliveAfter(SessionOf(interactive_process, last'.res)) ]_vars

\* C7 as stated: no call of the terminal tool raises, whatever the
\* arguments and whatever fails.
C7_NeverRaises ==
    last.tool = "terminal" => last.res.kind # "raise"

\* C8 as stated: a terminal call without input ensures the session, writes
\* nothing, reads, and returns the pid or the terminated variant.
C8_InputOptional ==
    (last.tool = "terminal" /\ ~last.args.empty /\ last.args.input = Absent)
    => /\ last.res.kind \in {"pid", "terminated"}
       /\ last.res.wrote = Absent
       /\ last.res.found # "none"

\* C9 as stated: a terminal call that reaches the session and meets no
\* spawn, drain, write or sleep failure returns, by the liveness check after
\* the read, either the pid variant with the pid of the session it keeps
\* referenced, or the terminated variant with the exit code of the process
\* and the reference cleared.
C9_TwoVariants ==
    [][ (TerminalStep /\ last'.res.fault \in {"none", "exitcode"})
        => /\ last'.res.found # "none"
           /\ IF AliveAfter(SessionOf(interactive_process, last'.res))
              THEN /\ last'.res.kind = "pid"
                   /\ last'.res.pid = SessionOf(interactive_process, last'.res)
                   /\ interactive_process' = last'.res.pid
                   /\ last'.res.exited = NoExit
              ELSE /\ last'.res.kind = "terminated"
                   /\ last'.res.exited \in ExitCodes
                   /\ last'.res.code = last'.res.exited
                   /\ interactive_process' = None ]_vars

\* C10 as stated, for the calls whose terminate(force=True) does not raise:
\* a terminate call made while a session is referenced leaves the process
\* terminated and the reference empty.
C10_Original ==
    [][ ( /\ Called
          /\ last'.tool = "terminate"
          /\ interactive_process # None
          /\ ~last'.res.termRaised )
        => /\ interactive_process' = None
           /\ ~AliveAfter(interactive_process) ]_vars

\* C11: a terminate call made with no session referenced returns the
\* "no session" message, raises nothing and changes no state; so does a
\* terminate call that follows a successful one.
C11_TerminateWithoutSession ==
    [][ /\ (Called /\ last'.tool = "terminate" /\ interactive_process = None)
           => /\ last'.res.kind = "no_session"
              /\ ~last'.res.termRaised
              /\ interactive_process' = None
              /\ procs' = procs
              /\ nextPid' = nextPid
              /\ screen' = screen
        /\ ( /\ Called
             /\ last'.tool = "terminate"
             /\ last.tool = "terminate"
             /\ last.res.kind = "terminated_ok" )
           => last'.res.kind = "no_session" ]_vars

\* C11 witness: a terminate call found no session after one had been
\* spawned and ended
C11_Witness ==
    /\ last.tool = "terminate"
    /\ last.res.kind = "no_session"
    /\ interactive_process = None
    /\ nextPid > 1

\* C12: a terminal call whose bounded read finds no data neither terminates
\* nor clears the session: no force-termination is attempted, and unless
\* the process exits on its own during the call the reference is the
\* session's pid, the process is running and that pid is reported; only a
\* process that exited on its own is no longer referenced.
C12_ReadTimeoutKeepsSession ==
    [][ ( /\ TerminalStep
          /\ last'.res.found = "timeout" )
        => LET p == SessionOf(interactive_process, last'.res)
           IN  /\ ~last'.res.termRaised
               /\ last'.res.exited = NoExit
                  => /\ interactive_process' = p
                     /\ AliveAfter(p)
                     /\ last'.res.kind = "pid"
                     /\ last'.res.pid = p
               /\ last'.res.exited # NoExit
                  => /\ ~AliveAfter(p)
                     /\ interactive_process' = None ]_vars

\* C12 witness: a read timed out on a session that an earlier call had
\* spawned, and the session is still referenced and running
C12_Witness ==
    /\ last.tool = "terminal"
    /\ last.res.found = "timeout"
    /\ last.res.spawned = None
    /\ last.res.kind = "pid"
    /\ interactive_process = last.res.pid
    /\ isalive(procs, interactive_process)

\* C13: a terminal call whose bounded read finds no data reports the read
\* as timed out, not as a generic read error, and its screen text is the
\* rendering of the current grid as the earlier reads left it.
C13_TimeoutShowsScreen ==
    ( /\ last.tool = "terminal"
      /\ last.res.found = "timeout" )
    => /\ last.res.text # ReadErrorText
       /\ last.res.text = Render(screen)

\* C14: fix_control_at_end leaves a string that does not end with a
\* backslash followed by n as it is, and in a string that does it leaves
\* every character before that trailing pair as it is.
C14_OnlyTheTail ==
    last.tool = "fix_control_at_end"
    => LET input == last.args.input
           out == last.res.text
           n == Len(input)
           tail == n >= 2 /\ input[n - 1] = "BS" /\ input[n] = "n"
       IN  /\ ~tail => out = input
           /\ tail => /\ Len(out) >= n - 2
                      /\ SubSeq(out, 1, n - 2) = SubSeq(input, 1, n - 2)

\* C16: requires_validation returns True exactly when a forbidden word occurs
\* in the command as a contiguous run of the same characters in the same
\* case, and applying it changes nothing of the server's state.
C16_GateIsSubstringTest ==
    [][ ( /\ Called
          /\ last'.tool = "requires_validation" )
        => /\ last'.res.kind = "True" <=> HasForbiddenWord(last'.args.input)
           /\ last'.res.kind \in {"True", "False"}
           /\ UNCHANGED <<interactive_process, procs, nextPid, screen,
                          no_fix_control>> ]_vars

\* C16 witness: the gate found one of the two words in the middle of a
\* command that also holds the capital of its first letter
C16_Witness ==
    /\ last.tool = "requires_validation"
    /\ last.args.input = <<"R", "r", "m", "n">>
    /\ last.res.kind = "True"

\* C19: an exec call whose child outlives the timeout returns the timeout
\* message naming the timeout in force (the call's own, or the configured
\* one when the call gives none), and its child is not left running.
C19_ExecTimeout ==
    [][ ( /\ Called
          /\ last'.tool = "exec"
          /\ last'.res.run.k = "timeout" )
        => /\ last'.res.kind = "exec_timeout"
           /\ last'.res.text =
                  <<"The command timed out after ">>
                  \o (IF last'.args.timeout = Absent
                      THEN <<exec_timeout>> ELSE last'.args.timeout)
                  \o <<" seconds">>
           /\ last'.res.child = "killed" ]_vars

\* C19 witness: an exec call with a timeout of its own timed out
C19_Witness ==
    /\ last.tool = "exec"
    /\ last.res.run.k = "timeout"
    /\ last.args.timeout = <<"5">>
    /\ last.res.kind = "exec_timeout"

\* the text holds the section header at position i
HeaderAt(text, header, i) ==
    i \in 1..Len(text) /\ text[i] = header /\ text[i + 1] = "NL"

\* C20: an exec call whose child ran to completion returns the return-code
\* line, then the STDOUT section exactly when stdout is not empty, then the
\* STDERR section exactly when stderr is not empty, each section holding its
\* stream; an exec call whose child could not be started or talked to
\* returns the error text and raises nothing.
C20_ExecResultText ==
    [][ ( /\ Called
          /\ last'.tool = "exec" )
        => LET run == last'.res.run
               text == last'.res.text
               o == 4
               e == IF run.out = <<>> THEN 4 ELSE 7 + Len(run.out)
               end == IF run.err = <<>> THEN e ELSE e + 3 + Len(run.err)
           IN  /\ run.k = "done"
                  => /\ last'.res.kind = "exec_result"
                     /\ SubSeq(text, 1, 3) = <<"return code: ", run.rc, "NL">>
                     /\ Len(text) = end - 1
                     /\ run.out # <<>>
                        <=> \E i \in 1..Len(text) : text[i] = "STDOUT:"
                     /\ run.err # <<>>
                        <=> \E i \in 1..Len(text) : text[i] = "STDERR:"
                     /\ run.out # <<>>
                        => /\ HeaderAt(text, "STDOUT:", o)
                           /\ SubSeq(text, o + 2, e - 1) = run.out \o <<"NL">>
                     /\ run.err # <<>>
                        => /\ HeaderAt(text, "STDERR:", e)
                           /\ SubSeq(text, e + 2, end - 1) = run.err \o <<"NL">>
               /\ run.k = "error" => last'.res.kind = "exec_error" ]_vars

\* C20 witness: a child that returned 1 with bytes on both streams
C20_Witness ==
    /\ last.tool = "exec"
    /\ last.res.kind = "exec_result"
    /\ last.res.run.rc = "1"
    /\ last.res.run.out # <<>>
    /\ last.res.run.err # <<>>

\* what the process has received so far; nothing if it is not there
Received(ps, p) == IF p \in DOMAIN ps THEN ps[p].stdin ELSE <<>>

\* C15: a terminal call that gets to its write writes to the session once,
\* exactly fix_control_at_end of its input when the fix is enabled and
\* exactly its input when it is disabled, with nothing put after it, which
\* is what the session it leaves referenced has received last; a
\* call writes nothing else, and nothing at all without an input; and the
\* command line an exec call runs holds the caller's command untouched.
C15_WhatIsWritten ==
    [][ /\ ( /\ Called
             /\ last'.tool = "terminal" )
           => LET input == last'.args.input
                  expected == IF no_fix_control THEN input
                              ELSE fix_control_at_end(input)
                  p == SessionOf(interactive_process, last'.res)
              IN  /\ last'.res.wrote # Absent
                     => /\ HasInput(last'.args)
                        /\ last'.res.wrote = expected
                        /\ interactive_process' = p
                           => procs'[p].stdin =
                                  Append(IF last'.res.spawned # None THEN <<>>
                                         ELSE Received(procs, p), expected)
                  /\ ( /\ ReachesSession(last'.args)
                       /\ last'.res.fault \in {"none", "exitcode"} )
                     => last'.res.wrote = expected
                  /\ ~HasInput(last'.args)
                     => /\ last'.res.wrote = Absent
                        /\ \A q \in DOMAIN procs' :
                               procs'[q].stdin = Received(procs, q)
                  /\ \A q \in DOMAIN procs' \ {p} :
                         procs'[q].stdin = Received(procs, q)
        /\ ( /\ Called
             /\ last'.tool = "exec"
             /\ last'.res.ran )
           => last'.res.cmd =
                  <<"process_path_args", " ">> \o last'.args.input ]_vars

\* C15 witness: with the fix disabled a terminal call wrote its input, which
\* ends in backslash-n, as it came
C15_Witness ==
    /\ no_fix_control
    /\ last.tool = "terminal"
    /\ last.args.input = EscapedInput
    /\ last.res.wrote = EscapedInput
    /\ interactive_process # None
    /\ procs[interactive_process].stdin = <<PlainInput, EscapedInput>>

\* the lines of a text: the runs of characters between its newlines
RECURSIVE SplitLines(_, _)
SplitLines(text, line) ==
    IF text = <<>> THEN <<line>>
    ELSE IF Head(text) = "NL" THEN <<line>> \o SplitLines(Tail(text), <<>>)
    ELSE SplitLines(Tail(text), Append(line, Head(text)))

\* the line is the full line without its trailing blanks
TrimOf(line, full) ==
    /\ Len(line) <= Len(full)
    /\ \A i \in 1..Len(line) : line[i] = full[i]
    /\ line # <<>> => line[Len(line)] # " "
    /\ \A i \in (Len(line) + 1)..Len(full) : full[i] = " "

\* C17: the rendered text has one line per row of the grid; the line of the
\* cursor's row is the row with one cursor glyph put after its first
\* cursor-column cells, the line of any other row is the row itself, each
\* without its trailing blanks; the text holds one cursor glyph.
C17_Rendering ==
    last.tool = "render"
    => LET ls == SplitLines(last.res.text, <<>>)
           row(y) == [i \in 1..Columns |-> screen.display[y][i - 1]]
           withGlyph(y) ==
               [i \in 1..(Columns + 1) |->
                   IF i <= screen.cx THEN row(y)[i]
                   ELSE IF i = screen.cx + 1 THEN "CUR"
                   ELSE row(y)[i - 1]]
       IN  /\ Len(ls) = Lines
           /\ \A y \in 0..(Lines - 1) :
                  IF y = screen.cy
                  THEN /\ TrimOf(ls[y + 1], withGlyph(y))
                       /\ ls[y + 1][screen.cx + 1] = "CUR"
                  ELSE TrimOf(ls[y + 1], row(y))
           /\ Cardinality({i \in 1..Len(last.res.text) :
                              last.res.text[i] = "CUR"}) = 1

\* C17 witness: the cursor stood after a blank and before a letter of the
\* second row, under a row ending in a blank
C17_Witness ==
    /\ last.tool = "render"
    /\ screen.cy = 1
    /\ screen.cx = 1
    /\ last.res.text = <<"a", "NL", " ", "CUR", "a">>

\* C18: the screen text a terminal call returns holds no match of any
\* configured filter pattern.
C18_FiltersApplied ==
    ( /\ last.tool = "terminal"
      /\ last.res.kind \in {"pid", "terminated"} )
    => \A i \in 1..Len(filter_patterns) :
           ~Contains(last.res.text, filter_patterns[i])

\* the exec call carries no command: no argument fields, no input field,
\* or an empty input
NoCommand(arguments) ==
    arguments.empty \/ arguments.input = Absent \/ arguments.input = <<>>

\* C21 as stated: an exec call carrying no command, a call with no argument
\* fields included, returns the error text, raises nothing and runs nothing.
C21_Original ==
    [][ ( /\ Called
          /\ last'.tool = "exec"
          /\ NoCommand(last'.args) )
        => /\ last'.res.kind = "exec_missing"
           /\ ~last'.res.ran ]_vars

\* C22: a call naming no configured tool raises and changes nothing of the
\* session, and no other call raises: every exec, terminal and terminate
\* call returns a text.
C22_OnlyUnknownToolRaises ==
    [][ Called
        => /\ last'.res.kind = "raise" <=> last'.tool = "unknown"
           /\ last'.tool = "unknown"
              => UNCHANGED <<interactive_process, procs, nextPid,
                             screen>> ]_vars

\* C23: an exec call, whatever its path (a result, a missing command, a
\* blocked command, a timeout, a failure to run, no arguments), leaves the
\* session reference, the processes of the terminal tool with what they
\* received, the pid counter and the screen as they were, so the terminal
\* and terminate calls around it find the session they would have found
\* without it.
C23_ExecLeavesSession ==
    [][ ( /\ Called
          /\ last'.tool = "exec" )
        => /\ interactive_process' = interactive_process
           /\ procs' = procs
           /\ nextPid' = nextPid
           /\ screen' = screen
           /\ last'.res.spawned = None
           /\ last'.res.wrote = Absent ]_vars

\* C23 witness: the child of an exec call timed out while a session that
\* had received input and shown output was running
C23_Witness ==
    /\ last.tool = "exec"
    /\ last.res.kind = "exec_timeout"
    /\ interactive_process # None
    /\ isalive(procs, interactive_process)
    /\ procs[interactive_process].stdin # <<>>
    /\ screen # NewScreen

\* C25: a terminal call that finds the referenced process exited does not
\* report that process's pid as a running session and does not keep it
\* referenced; what it writes goes to a process it has just spawned, which
\* has received nothing else.
C25_DeadSessionNotReused ==
    [][ ( /\ TerminalStep
          /\ interactive_process # None
          /\ ~isalive(procs, interactive_process) )
        => LET dead == interactive_process
               new == last'.res.spawned
           IN  /\ ~(last'.res.kind = "pid" /\ last'.res.pid = dead)
               /\ interactive_process' # dead
               /\ dead \in DOMAIN procs'
                  => procs'[dead].stdin = procs[dead].stdin
               /\ last'.res.wrote # Absent
                  => /\ new # None
                     /\ new # dead
                     /\ new \notin DOMAIN procs
                     /\ interactive_process' = new
                        => procs'[new].stdin = <<last'.res.wrote>> ]_vars

\* C25 witness: a call found the session's process exited after it had
\* received input, spawned another, wrote to it and reports the new pid
C25_Witness ==
    /\ last.tool = "terminal"
    /\ last.res.superseded # None
    /\ last.res.spawned # None
    /\ last.res.wrote # Absent
    /\ last.res.kind = "pid"
    /\ last.res.pid = last.res.spawned
    /\ interactive_process = last.res.spawned
    /\ procs[interactive_process].stdin = <<last.res.wrote>>

\* the screens a spawn can leave before the bounded read: a blank one, fed
\* the initial drain if there was any
AfterSpawn == {Feed(NewScreen, d) : d \in {NoData} \cup Chunks}

\* C26: the chunk a terminal call reads is fed to the screen once: the
\* screen after the call is the screen before the read (that of the session,
\* or the one the call's spawn left) fed one chunk.
C26_ChunkFedOnce ==
    [][ ( /\ TerminalStep
          /\ last'.res.found = "data" )
        => \E base \in (IF last'.res.spawned # None
                        THEN AfterSpawn ELSE {screen}) :
               \E c \in Chunks : screen' = Feed(base, c) ]_vars

\* a grid of the configured height and width
HasConfiguredSize(sc) ==
    /\ DOMAIN sc.display = 0..(TerminalHeight - 1)
    /\ \A y \in DOMAIN sc.display :
           DOMAIN sc.display[y] = 0..(TerminalWidth - 1)

\* the blank grid of the configured size, the cursor in its corner
Blank ==
    [ display |-> [y \in 0..(TerminalHeight - 1) |->
                      [x \in 0..(TerminalWidth - 1) |-> " "]],
      cx |-> 0, cy |-> 0 ]

\* the screen after the feeds of one call on a screen: none, or the chunk
\* of the bounded read as ReadStep feeds it
AfterRead(sc) == {sc} \cup {Feed(Feed(sc, c), c) : c \in Chunks}

\* C27: while a session is referenced there is a screen of the configured
\* height and width; the reference moves to another process only in a call
\* that spawns it, and such a call binds a blank screen that holds only what
\* the call itself has fed; a call that spawns nothing keeps the screen, fed
\* at most what it has read.
C27_ScreenOfTheSession ==
    [][ /\ interactive_process' # None
           => screen' # NoScreen /\ HasConfiguredSize(screen')
        /\ screen # NoScreen
           => screen' # NoScreen /\ HasConfiguredSize(screen')
        /\ interactive_process' \notin {None, interactive_process}
           => /\ Called
              /\ last'.tool = "terminal"
              /\ last'.res.spawned = interactive_process'
        /\ (Called /\ last'.res.spawned # None)
           => \E d \in {NoData} \cup Chunks :
                  screen' \in AfterRead(Feed(Blank, d))
        /\ (Called /\ last'.res.spawned = None)
           => IF screen = NoScreen THEN screen' = NoScreen
              ELSE screen' \in AfterRead(screen) ]_vars

\* C27 witness: a second session has been spawned in place of the first
\* one, whose process had exited, and its screen is blank
C27_Witness ==
    /\ last.tool = "terminal"
    /\ last.res.spawned = 2
    /\ last.res.superseded = 1
    /\ interactive_process = 2
    /\ screen = Blank

\* the task is inside its call: past the entry, not yet returned
InCall(t) == loop.pc[t] \notin {"idle", "ready"}

\* C24: the calls on the session are serialized: no two tasks are inside a
\* terminal or terminate call at once, and while a task is inside its call
\* every change of the session reference, of the pid counter, of the screen
\* and of what the processes have received is made by a statement of that
\* task; so two calls never both spawn, and none clears a session that
\* another is using.
C24_CallsAreSerialized ==
    [][ /\ \A t, u \in Tasks :
               (t # u) => ~(InCall(t)' /\ InCall(u)')
        /\ \A t \in Tasks :
               (InCall(t) /\ loop'.pc[t] = loop.pc[t])
               => /\ UNCHANGED <<interactive_process, nextPid, screen>>
                  /\ \A u \in Tasks \ {t} :
                         /\ loop'.pc[u] \in {"idle", "ready"}
                         /\ loop'.res[u] = loop.res[u]
                  /\ \A p \in DOMAIN procs :
                         p \in DOMAIN procs'
                         => procs'[p].stdin = procs[p].stdin ]_vars

\* C24 witness: a terminate request is waiting for the thread while a
\* terminal call that has spawned and written is about to read
C24_Witness ==
    /\ loop.pc[1] = "read"
    /\ loop.res[1].spawned # None
    /\ loop.res[1].wrote # Absent
    /\ loop.pc[2] = "ready"
    /\ loop.tool[2] = "terminate"
    /\ interactive_process # None

\* the statements of a terminal call in the order of the code
Rank(pc) ==
    IF pc = "ensure" THEN 1
    ELSE IF pc = "grace" THEN 2
    ELSE IF pc = "drain" THEN 3
    ELSE IF pc = "write" THEN 4
    ELSE IF pc = "wait" THEN 5
    ELSE IF pc = "read" THEN 6
    ELSE IF pc = "check" THEN 7
    ELSE 8

\* C28: a terminal call that has been entered returns; its statements are
\* executed in the order of the code and none twice, so it spawns at most
\* once, drains at most once and only after a spawn, writes at most once,
\* waits once and makes one bounded read, after which it goes on to the
\* liveness check whether or not the read found data.
C28_CallTerminates ==
    /\ \A t \in Tasks :
           (loop.tool[t] = "terminal" /\ InCall(t)) ~> (loop.pc[t] = "idle")
    /\ [][ \A t \in Tasks :
               ( /\ loop.tool[t] = "terminal"
                 /\ InCall(t)
                 /\ loop'.pc[t] # loop.pc[t] )
               => LET after == IF loop'.pc[t] = "idle"
                               THEN last'.res ELSE loop'.res[t]
                  IN
                  /\ \/ loop'.pc[t] = "idle"
                     \/ Rank(loop'.pc[t]) > Rank(loop.pc[t])
                  /\ loop'.pc[t] = "drain" => loop.res[t].spawned # None
                  /\ loop.pc[t] = "read" => loop'.pc[t] = "check"
                  /\ loop'.pc[t] = "check" => loop.pc[t] = "read"
                  /\ nextPid' # nextPid => loop.pc[t] = "ensure"
                  /\ after.wrote # loop.res[t].wrote
                     => loop.pc[t] = "write"
                  /\ after.found # loop.res[t].found
                     => loop.pc[t] = "read" ]_vars

\* C28 witness: a terminal call that spawned, wrote and found nothing to
\* read has returned
C28_Witness ==
    /\ last.tool = "terminal"
    /\ last.res.spawned # None
    /\ last.res.wrote # Absent
    /\ last.res.found = "timeout"
    /\ last.res.kind = "pid"
    /\ \A t \in Tasks : loop.pc[t] = "idle"

====
